---- MODULE Spec2Model ----
(***************************************************************************)
(* Linear least-squares models (LR, OnlineLR, ElasticNet), the Woodbury    *)
(* rank-1 update and the windowed drivers of src/linalg/lstsq.rs.          *)
(*                                                                         *)
(* Matrices carry their exact shape and their entries.  An f64 entry is    *)
(* either a literal (an integer multiple of f64::EPSILON, NaN, +inf, -inf) *)
(* or the i-th output of a solver, written as an uninterpreted term over   *)
(* the solver's inputs: equal terms denote equal numbers.                  *)
(***************************************************************************)
EXTENDS Integers, Sequences, FiniteSets, TLC

\* ------------------------------------------------------------- bounds ----
MaxRows == 1
MaxCols == 2
MaxUpdates == 1

\* ------------------------------------------------------------ f64 values -
EPSILON == 1

F(n) == [k |-> "fin", v |-> n, t |-> <<>>]
NaN == [k |-> "nan", v |-> 0, t |-> <<>>]
PInf == [k |-> "inf", v |-> 1, t |-> <<>>]
NInf == [k |-> "inf", v |-> -1, t |-> <<>>]
\* i-th entry of the weight vector / of the inverse described by term t
Sol(i, t) == [k |-> "sol", v |-> i, t |-> t]
InvE(i, t) == [k |-> "inv", v |-> i, t |-> t]

is_nan(x) == x.k = "nan"

IsFinite(x) == x.k = "fin"

\* bias.abs() > f64::EPSILON on a literal (every comparison with NaN is false)
AbsGtEps(b) ==
    CASE b.k = "fin" -> (IF b.v < 0 THEN -b.v ELSE b.v) > EPSILON
      [] b.k = "inf" -> TRUE
      [] OTHER -> FALSE

abs_diff(a, b) == IF a >= b THEN a - b ELSE b - a

\* ------------------------------------------------------------- matrices --
\* data is row-major: data[i][j] is entry (i-1, j-1)
MatNew == [nrows |-> 0, ncols |-> 0, data |-> <<>>]

MatFromFn(r, c, f(_, _)) ==
    [nrows |-> r, ncols |-> c,
     data |-> [i \in 1..r |-> [j \in 1..c |-> f(i, j)]]]

\* Mat::from_fn(coeffs.len(), 1, |i, _| coeffs[i])
ColFromSlice(coeffs) ==
    [nrows |-> Len(coeffs), ncols |-> 1,
     data |-> [i \in 1..Len(coeffs) |-> <<coeffs[i]>>]]

shape(m) == <<m.nrows, m.ncols>>

\* column 0 of m as a sequence
col_as_slice(m) == [i \in 1..m.nrows |-> m.data[i][1]]

\* faer::concat![[X, ones]]
ConcatOnes(X) ==
    [nrows |-> X.nrows, ncols |-> X.ncols + 1,
     data |-> [i \in 1..X.nrows |-> Append(X.data[i], F(1))]]

\* x.get(lo..hi, ..) with 0-based half-open row range
RowSlice(m, lo, hi) ==
    [nrows |-> hi - lo, ncols |-> m.ncols,
     data |-> [i \in 1..(hi - lo) |-> m.data[lo + i]]]

\* x.get(i..i+1, ..) for a 0-based row index i
Row(mat, i) == RowSlice(mat, i, i + 1)

\* has_nan that looks at the first column only
has_nan_first_col(mat) ==
    mat.ncols >= 1 /\ \E i \in 1..mat.nrows : is_nan(mat.data[i][1])

has_nan(mat) ==
    \E j \in 1..mat.ncols : \E i \in 1..mat.nrows : is_nan(mat.data[i][j])

HasNonFinite(mat) ==
    \E j \in 1..mat.ncols : \E i \in 1..mat.nrows : ~IsFinite(mat.data[i][j])

AllOnes(r, c) == MatFromFn(r, c, LAMBDA i, j : F(1))

\* ---------------------------------------------------------------- terms --
\* One event per operation that determines the numbers held by a model.
Event(e, x, y, c, lam, reg, how) ==
    [e |-> e, x |-> x, y |-> y, c |-> c, lam |-> lam, reg |-> reg, how |-> how]

\* the term describing the entries of m (<<>> for a matrix without entries)
TermOf(m) ==
    IF m.nrows >= 1 /\ m.ncols >= 1
    THEN IF m.data[1][1].k \in {"sol", "inv"}
         THEN m.data[1][1].t
         ELSE <<Event("lit", m, MatNew, 0, 0, {}, "none")>>
    ELSE <<>>

SolCol(p, t) == MatFromFn(p, 1, LAMBDA i, j : Sol(i - 1, t))

InvMat(r, c, t) == MatFromFn(r, c, LAMBDA i, j : InvE((i - 1) * c + (j - 1), t))

\* -------------------------------------------------------------- solvers --
\* indices i of the loop `for i in 0..n1 { xtx.get_mut_unchecked(i, i) += lambda }`
DiagWrites(ncols, has_bias, enabled) ==
    LET n1 == abs_diff(ncols, IF has_bias THEN 1 ELSE 0)
    IN IF enabled /\ n1 >= 1 THEN 0..(n1 - 1) ELSE {}

\* faer_solve_lstsq whose Choleskey arm solves by column-pivoted QR
faer_solve_lstsq_choleskey_as_qr(x, y, lam, has_bias, how) ==
    LET diag == DiagWrites(x.ncols, has_bias, lam >= 0)
        t == <<Event("fit", x, y, 0, lam, diag, "QR")>>
    IN [st |-> IF x.nrows # y.nrows THEN "panic" ELSE "ok",
        oob |-> \E i \in diag : i >= x.ncols,
        diag |-> diag,
        inv |-> MatNew,
        w |-> SolCol(x.ncols, t)]

\* st: "ok", "todo" (todo!() panics) or "panic" (x^T * y with unequal row counts);
\* oob: a get_mut_unchecked(i, i) of the diagonal loop lies outside x^T x
\* (undefined behaviour: the caller chooses between the outcomes of the build)
faer_solve_lstsq(x, y, lam, has_bias, how) ==
    LET diag == DiagWrites(x.ncols, has_bias, lam >= 0)
        t == <<Event("fit", x, y, 0, lam, diag, how)>>
    IN [st |-> IF how = "Choleskey" THEN "todo"
               ELSE IF x.nrows # y.nrows THEN "panic" ELSE "ok",
        oob |-> \E i \in diag : i >= x.ncols,
        diag |-> diag,
        inv |-> MatNew,
        w |-> SolCol(x.ncols, t)]

faer_qr_lstsq_with_inv(x, y, lam, has_bias) ==
    LET diag == DiagWrites(x.ncols, has_bias, lam > 0)
        t == <<Event("fit", x, y, 0, lam, diag, "QR")>>
    IN [st |-> IF x.nrows # y.nrows THEN "panic" ELSE "ok",
        oob |-> \E i \in diag : i >= x.ncols,
        diag |-> diag,
        inv |-> InvMat(x.ncols, x.ncols, t),
        w |-> SolCol(x.ncols, t)]

faer_coordinate_descent(x, y, has_bias) ==
    LET t == <<Event("cd", x, y, 0, 0, {}, IF has_bias THEN "bias" ELSE "nobias")>>
    IN [st |-> IF x.nrows # y.nrows THEN "panic" ELSE "ok",
        oob |-> FALSE,
        diag |-> {},
        inv |-> MatNew,
        w |-> SolCol(x.ncols, t)]

\* the arm of `match how` that produces the solution when thin_svd() returns
\* Ok (svd_ok) or Err: `_ => xtx.col_piv_qr().solve(xt * y)` is the QR arm
SolveArm(how, svd_ok) == IF how = "SVD" /\ ~svd_ok THEN "QR" ELSE how

\* faer_weighted_lstsq with a weight slice of length wlen
faer_weighted_lstsq(x, y, wlen, how, svd_ok) ==
    LET arm == SolveArm(how, svd_ok)
        t == <<Event("wfit", x, y, wlen, 0, {}, arm)>>
    IN [st |-> IF wlen # x.nrows THEN "panic"
               ELSE IF arm = "Choleskey" THEN "todo"
               ELSE IF x.nrows # y.nrows THEN "panic" ELSE "ok",
        oob |-> FALSE,
        diag |-> {},
        arm |-> arm,
        w |-> SolCol(x.ncols, t)]

\* faer_solve_lstsq_rcond: thin_svd().unwrap() comes before xt * y
faer_solve_lstsq_rcond(x, y, svd_ok) ==
    LET t == <<Event("rcond", x, y, 0, 0, {}, "SVD")>>
    IN [st |-> IF ~svd_ok THEN "unwrap"
               ELSE IF x.nrows # y.nrows THEN "panic" ELSE "ok",
        oob |-> FALSE,
        diag |-> {},
        arm |-> "SVD",
        w |-> SolCol(x.ncols, t)]

\* faer_solve_ridge_rcond: the diagonal loop runs for every lambda
faer_solve_ridge_rcond(x, y, lam, has_bias, svd_ok) ==
    LET diag == DiagWrites(x.ncols, has_bias, TRUE)
        t == <<Event("ridge_rcond", x, y, 0, lam, diag, "SVD")>>
    IN [st |-> IF ~svd_ok THEN "unwrap"
               ELSE IF x.nrows # y.nrows THEN "panic" ELSE "ok",
        oob |-> \E i \in diag : i >= x.ncols,
        diag |-> diag,
        arm |-> "SVD",
        w |-> SolCol(x.ncols, t)]

\* woodbury_step: the matrix products panic when their dimensions disagree.
\*   u = inverse * new_x^T                 (a x b)(p x r)   needs b = p
\*   z = 1/(c + (new_x * u)[0,0])          (r x p)(a x r)   needs p = a, r >= 1
\*   matmul(inverse += -z * u * u^T)       dst a x b        needs b = a
\*   y_diff = new_y - new_x * weights      (r x p)(w x wc)  needs p = w, new_y is r x wc
\*   matmul(weights += z * y_diff * u)     dst w x wc, lhs r x wc, rhs a x r
\*                                         needs w = r, wc = r, wc = a
\* The inverse is already overwritten when one of the last two steps panics.
woodbury_step(inverse, weights, new_x, new_y, c) ==
    LET a == inverse.nrows
        b == inverse.ncols
        w == weights.nrows
        wc == weights.ncols
        r == new_x.nrows
        p == new_x.ncols
        ev == Event("upd", new_x, new_y, c, 0, {}, "woodbury")
        inv2 == InvMat(a, b, Append(TermOf(inverse), ev))
        w2 == SolCol(w, Append(TermOf(weights), ev))
        first == b = p /\ p = a /\ r >= 1 /\ b = a
        second == p = w /\ new_y.nrows = r /\ new_y.ncols = wc
        third == w = r /\ wc = r /\ wc = a
    IN IF ~first THEN [st |-> "panic", inv |-> inverse, w |-> weights]
       ELSE IF ~(second /\ third) THEN [st |-> "panic", inv |-> inv2, w |-> weights]
       ELSE [st |-> "ok", inv |-> inv2, w |-> w2]

\* ---------------------------------------------------------------- state --
VARIABLES
    kind,          \* "LR", "OnlineLR" or "ElasticNet": the struct of the model
    solver,        \* LR.solver
    lambda,        \* LR.lambda / OnlineLR.lambda
    coefficients,  \* .coefficients
    fit_bias,      \* .fit_bias
    bias,          \* .bias
    inv,           \* OnlineLR.inv
    last,          \* the last call on the model: its inputs and what it returned
    alive,         \* FALSE once a call has panicked
    drv            \* state of a windowed driver run (see below)

vars == <<kind, solver, lambda, coefficients, fit_bias, bias, inv, last, alive, drv>>

model == <<kind, solver, lambda, coefficients, fit_bias, bias, inv>>

Kinds == {"LR", "OnlineLR", "ElasticNet"}
Solvers == {"QR", "SVD", "Choleskey"}
Lambdas == {0, 1}

\* LinearRegression::is_fit
is_fit(coefs) == ~(shape(coefs) = <<0, 0>>)

\* LinearRegression::check_is_fit
check_is_fit(coefs) == IF is_fit(coefs) THEN "Ok" ELSE "MatNotLearnedYet"

\* what a call leaves in `last`; wood: woodbury_step was entered;
\* ub: an unchecked access went out of range; pre_fit: is_fit() before the call
Call(op, res, x, y, c, wood, ub) ==
    [op |-> op, res |-> res, x |-> x, y |-> y, c |-> c, wood |-> wood,
     ub |-> ub, pre_fit |-> is_fit(coefficients)]

NoDrv == [pc |-> "none"]

\* ----------------------------------------------------------- input sets --
XInputs == {AllOnes(r, c) : r \in 0..MaxRows, c \in 0..MaxCols}
YInputs == {AllOnes(r, 1) : r \in 0..MaxRows}

UpdVals == {NaN, PInf}
\* rows 1 x p of ones, with at most one entry replaced by a value of S
RowsOver(S, p) ==
    {MatFromFn(1, p, LAMBDA i, j : IF j = q THEN v ELSE F(1)) : q \in 1..p, v \in S}
        \cup {AllOnes(1, p)}
RowInputs == UNION {RowsOver(UpdVals, p) : p \in 0..MaxCols}
YRowInputs == RowsOver({NaN, NInf}, 1)
\* rows already validated by the caller, as update_unchecked expects them
ValidRowInputs == {x \in RowInputs : ~has_nan(x)}
ValidYRowInputs == {y \in YRowInputs : ~has_nan(y)}

\* coefficient slices <<>>, <<2>>, <<2, 3>>, ...: distinct entries, every length
CoefInputs == {[i \in 1..l |-> F(i + 1)] : l \in 0..MaxCols}
BiasVals == {F(0), F(1), F(2), F(-2), NaN, PInf}

\* ------------------------------------------------------- constructors ----
\* LR::new, OnlineLR::new, ElasticNet::new: the fields of the new model
New(k, s, lam, fb) ==
    /\ kind = k
    /\ solver = (IF k = "LR" THEN s ELSE "QR")
    /\ lambda = (IF k = "ElasticNet" THEN 0 ELSE lam)
    /\ coefficients = MatNew
    /\ fit_bias = fb
    /\ bias = F(0)
    /\ inv = MatNew
    /\ last = [op |-> "new", res |-> "Ok", x |-> MatNew, y |-> MatNew, c |-> 0,
               wood |-> FALSE, ub |-> FALSE, pre_fit |-> FALSE]

\* LR::from_values, ElasticNet::from_values: the fields of the new model
from_values(k, coeffs, b) ==
    /\ k \in {"LR", "ElasticNet"}
    /\ kind = k
    /\ solver = "QR"
    /\ lambda = 0
    /\ coefficients = ColFromSlice(coeffs)
    /\ fit_bias = AbsGtEps(b)
    /\ bias = b
    /\ inv = MatNew
    /\ last = [op |-> "from_values", res |-> "Ok", x |-> ColFromSlice(coeffs),
               y |-> ColFromSlice(<<b>>), c |-> 0,
               wood |-> FALSE, ub |-> FALSE, pre_fit |-> FALSE]

\* set_coeffs_and_bias that forgets to recompute fit_bias
set_coeffs_and_bias_stale_flag(coeffs, b) ==
    /\ alive
    /\ kind \in {"LR", "ElasticNet"}
    /\ coefficients' = ColFromSlice(coeffs)
    /\ bias' = b
    /\ last' = Call("set_coeffs_and_bias", "Ok", ColFromSlice(coeffs), ColFromSlice(<<b>>), 0, FALSE, FALSE)
    /\ UNCHANGED <<kind, solver, lambda, fit_bias, inv, alive, drv>>

\* LR::set_coeffs_and_bias, ElasticNet::set_coeffs_and_bias
set_coeffs_and_bias(coeffs, b) ==
    /\ alive
    /\ kind \in {"LR", "ElasticNet"}
    /\ coefficients' = ColFromSlice(coeffs)
    /\ bias' = b
    /\ fit_bias' = AbsGtEps(b)
    /\ last' = Call("set_coeffs_and_bias", "Ok", ColFromSlice(coeffs), ColFromSlice(<<b>>), 0, FALSE, FALSE)
    /\ UNCHANGED <<kind, solver, lambda, inv, alive, drv>>

\* inverses handed to set_coeffs_bias_inverse: literal matrices of every shape
InvInputs == {AllOnes(r, c) : r \in 0..MaxCols, c \in 0..MaxCols}
SetBiasVals == {F(0), F(2)}

\* OnlineLR::set_coeffs_bias_inverse
set_coeffs_bias_inverse(coeffs, b, inverse) ==
    /\ alive
    /\ kind = "OnlineLR"
    /\ IF Len(coeffs) # inverse.ncols
       THEN /\ last' = Call("set_coeffs_bias_inverse", "DimensionMismatch",
                            ColFromSlice(coeffs), inverse, 0, FALSE, FALSE)
            /\ UNCHANGED <<coefficients, bias, inv>>
       ELSE /\ bias' = b
            /\ coefficients' = ColFromSlice(coeffs)
            /\ inv' = inverse
            /\ last' = Call("set_coeffs_bias_inverse", "Ok",
                            ColFromSlice(coeffs), inverse, 0, FALSE, FALSE)
    /\ UNCHANGED <<kind, solver, lambda, fit_bias, alive, drv>>

\* ------------------------------------------------------- fit_unchecked ---
FirstRows(m, k) == ColFromSlice(SubSeq(col_as_slice(m), 1, k))

\* LR::fit_unchecked
LR_fit_unchecked(X, y) ==
    LET r == IF fit_bias
             THEN faer_solve_lstsq(ConcatOnes(X), y, lambda, TRUE, solver)
             ELSE faer_solve_lstsq(X, y, lambda, FALSE, solver)
        n == r.w.nrows
    IN [st |-> r.st, oob |-> r.oob,
        coefficients |-> IF fit_bias THEN FirstRows(r.w, n - 1) ELSE r.w,
        bias |-> IF fit_bias THEN col_as_slice(r.w)[n] ELSE bias,
        inv |-> inv]

\* OnlineLR::fit_unchecked
OnlineLR_fit_unchecked(X, y) ==
    LET r == IF fit_bias
             THEN faer_qr_lstsq_with_inv(ConcatOnes(X), y, lambda, TRUE)
             ELSE faer_qr_lstsq_with_inv(X, y, lambda, TRUE)
        actual_features == X.ncols
    IN [st |-> r.st, oob |-> r.oob,
        coefficients |-> IF fit_bias THEN FirstRows(r.w, actual_features) ELSE r.w,
        bias |-> IF fit_bias THEN col_as_slice(r.w)[actual_features + 1] ELSE bias,
        inv |-> r.inv]

\* ElasticNet::fit_unchecked
ElasticNet_fit_unchecked(X, y) ==
    LET r == IF fit_bias
             THEN faer_coordinate_descent(ConcatOnes(X), y, fit_bias)
             ELSE faer_coordinate_descent(X, y, fit_bias)
        n == r.w.nrows
    IN [st |-> r.st, oob |-> r.oob,
        coefficients |-> IF fit_bias THEN FirstRows(r.w, n - 1) ELSE r.w,
        bias |-> IF fit_bias THEN col_as_slice(r.w)[n] ELSE bias,
        inv |-> inv]

fit_unchecked(X, y) ==
    CASE kind = "LR" -> LR_fit_unchecked(X, y)
      [] kind = "OnlineLR" -> OnlineLR_fit_unchecked(X, y)
      [] OTHER -> ElasticNet_fit_unchecked(X, y)

\* the call op runs fit_unchecked(X, y); ubgo: an out-of-range unchecked write
\* goes unnoticed (otherwise it aborts the call)
RunFit(op, X, y, ubgo) ==
    LET r == fit_unchecked(X, y)
    IN /\ ~r.oob => ubgo
       /\ IF ~ubgo \/ r.st # "ok"
          THEN /\ alive' = FALSE
               /\ last' = Call(op, IF r.st = "todo" THEN "todo" ELSE "panic",
                               X, y, 0, FALSE, r.oob)
               /\ UNCHANGED <<coefficients, bias, inv>>
          ELSE /\ coefficients' = r.coefficients
               /\ bias' = r.bias
               /\ inv' = r.inv
               /\ last' = Call(op, "Ok", X, y, 0, FALSE, r.oob)
               /\ UNCHANGED alive
       /\ UNCHANGED <<kind, solver, lambda, fit_bias>>

\* LinearRegression::fit (LR, OnlineLR) and ElasticNet::fit: the validation
FitCheck(X, y) ==
    IF X.nrows # y.nrows THEN "DimensionMismatch"
    ELSE IF kind = "ElasticNet"
         THEN IF X.nrows = 0 \/ y.nrows = 0 THEN "NotEnoughData" ELSE "Ok"
         ELSE IF X.nrows < X.ncols \/ X.nrows = 0 \/ y.nrows = 0
              THEN "NotEnoughData" ELSE "Ok"

\* fit that clears the earlier coefficients before it validates its inputs
Fit_resets_before_validation(X, y, ubgo) ==
    /\ alive
    /\ IF FitCheck(X, y) # "Ok"
       THEN /\ ubgo
            /\ coefficients' = MatNew
            /\ last' = Call("fit", FitCheck(X, y), X, y, 0, FALSE, FALSE)
            /\ UNCHANGED <<kind, solver, lambda, fit_bias, bias, inv, alive, drv>>
       ELSE RunFit("fit", X, y, ubgo) /\ UNCHANGED drv

Fit(X, y, ubgo) ==
    /\ alive
    /\ IF FitCheck(X, y) # "Ok"
       THEN /\ ubgo
            /\ last' = Call("fit", FitCheck(X, y), X, y, 0, FALSE, FALSE)
            /\ UNCHANGED <<kind, solver, lambda, coefficients, fit_bias, bias, inv, alive, drv>>
       ELSE RunFit("fit", X, y, ubgo) /\ UNCHANGED drv

FitUnchecked(X, y, ubgo) ==
    /\ alive
    /\ RunFit("fit_unchecked", X, y, ubgo)
    /\ UNCHANGED drv

\* ------------------------------------------------------------- update ----
\* OnlineLR::update_unchecked: the fields after the call and how it ended
update_unchecked(new_x, new_y, c) ==
    IF fit_bias
    THEN LET nfeats == coefficients.nrows
             temp_weights == ColFromSlice(
                 [i \in 1..(nfeats + 1) |->
                     IF i <= nfeats THEN coefficients.data[i][1] ELSE bias])
             r == woodbury_step(inv, temp_weights, ConcatOnes(new_x), new_y, c)
         IN [st |-> r.st, inv |-> r.inv,
             coefficients |-> IF r.st = "ok" THEN FirstRows(r.w, nfeats) ELSE coefficients,
             bias |-> IF r.st = "ok" THEN col_as_slice(r.w)[nfeats + 1] ELSE bias]
    ELSE LET r == woodbury_step(inv, coefficients, new_x, new_y, c)
         IN [st |-> r.st, inv |-> r.inv, coefficients |-> r.w, bias |-> bias]

RunUpdate(op, new_x, new_y, c) ==
    LET r == update_unchecked(new_x, new_y, c)
    IN /\ coefficients' = r.coefficients
       /\ bias' = r.bias
       /\ inv' = r.inv
       /\ alive' = (r.st = "ok")
       /\ last' = Call(op, IF r.st = "ok" THEN "Ok" ELSE "panic", new_x, new_y, c, TRUE, FALSE)
       /\ UNCHANGED <<kind, solver, lambda, fit_bias>>

UpdateUnchecked(new_x, new_y, c) ==
    /\ alive
    /\ kind = "OnlineLR"
    /\ Len(TermOf(inv)) <= MaxUpdates
    /\ RunUpdate("update_unchecked", new_x, new_y, c)
    /\ UNCHANGED drv

\* OnlineLR::update
update(new_x, new_y, c) ==
    IF ~(has_nan(new_x) \/ has_nan(new_y))
    THEN RunUpdate("update", new_x, new_y, c)
    ELSE /\ last' = Call("update", "Ok", new_x, new_y, c, FALSE, FALSE)
         /\ UNCHANGED <<kind, solver, lambda, coefficients, fit_bias, bias, inv, alive>>

Update(new_x, new_y, c) ==
    /\ alive
    /\ kind = "OnlineLR"
    /\ Len(TermOf(inv)) <= MaxUpdates
    /\ update(new_x, new_y, c)
    /\ UNCHANGED drv

\* ------------------------------------------------------------ queries ----
\* LinearRegression::predict: the error, or "Ok"
predict(X) ==
    IF X.ncols # coefficients.nrows THEN "DimensionMismatch"
    ELSE IF ~is_fit(coefficients) THEN "MatNotLearnedYet"
    ELSE "Ok"

\* what `self.fit_bias() && self.bias().abs() > f64::EPSILON` decides: for a
\* bias computed by a solver the comparison is left symbolic
BiasMode ==
    IF ~fit_bias THEN "none"
    ELSE IF bias.k \in {"sol", "inv"} THEN "add_if_abs_gt_eps"
    ELSE IF AbsGtEps(bias) THEN "add" ELSE "none"

\* predict that never adds the bias
predict_result_without_bias(X) ==
    MatFromFn(X.nrows, 1, LAMBDA i, j :
        [k |-> "dot", v |-> i - 1,
         t |-> <<Event("predict", Row(X, i - 1), coefficients, 0, F(0), {}, "none")>>])

\* the matrix predict returns: entry i is (X * coefficients)[i], plus the bias
\* as BiasMode says
predict_result(X) ==
    MatFromFn(X.nrows, 1, LAMBDA i, j :
        [k |-> "dot", v |-> i - 1,
         t |-> <<Event("predict", Row(X, i - 1), coefficients, 0,
                       IF BiasMode = "none" THEN F(0) ELSE bias, {}, BiasMode)>>])

Predict(X) ==
    /\ alive
    /\ last' = Call("predict", predict(X), X,
                    IF predict(X) = "Ok" THEN predict_result(X) ELSE MatNew,
                    0, FALSE, FALSE)
    /\ UNCHANGED <<kind, solver, lambda, coefficients, fit_bias, bias, inv, alive, drv>>

\* LinearRegression::coeffs_as_vec: the error, or "Ok" (the vector is column 0)
coeffs_as_vec == check_is_fit(coefficients)

CoeffsAsVec ==
    /\ alive
    /\ last' = Call("coeffs_as_vec", coeffs_as_vec, MatNew, MatNew, 0, FALSE, FALSE)
    /\ UNCHANGED <<kind, solver, lambda, coefficients, fit_bias, bias, inv, alive, drv>>

\* OnlineLR::get_inv
get_inv == IF shape(inv) = <<0, 0>> THEN "MatNotLearnedYet" ELSE "Ok"

GetInv ==
    /\ alive
    /\ kind = "OnlineLR"
    /\ last' = Call("get_inv", get_inv, MatNew, MatNew, 0, FALSE, FALSE)
    /\ UNCHANGED <<kind, solver, lambda, coefficients, fit_bias, bias, inv, alive, drv>>

\* ------------------------------------------------- specification: models -
\* a model as one of its constructors returns it
Init ==
    /\ \/ \E k \in Kinds, s \in Solvers, lam \in Lambdas, fb \in BOOLEAN : New(k, s, lam, fb)
       \/ \E k \in Kinds, c \in CoefInputs, b \in BiasVals : from_values(k, c, b)
    /\ alive = TRUE
    /\ drv = NoDrv

Next ==
    \/ \E c \in CoefInputs, b \in BiasVals : set_coeffs_and_bias(c, b)
    \/ \E X \in XInputs, y \in YInputs, ubgo \in BOOLEAN : Fit(X, y, ubgo)
    \/ \E X \in XInputs, y \in YInputs, ubgo \in BOOLEAN : FitUnchecked(X, y, ubgo)
    \/ \E x \in RowInputs, y \in YRowInputs, c \in {1, -1} : Update(x, y, c)
    \/ \E x \in ValidRowInputs, y \in ValidYRowInputs, c \in {1, -1} : UpdateUnchecked(x, y, c)
    \/ \E X \in XInputs : Predict(X)
    \/ CoeffsAsVec
    \/ GetInv

Spec == Init /\ [][Next]_vars

\* ------------------------------------- specification: the online model ---
InitOnline == Init /\ kind = "OnlineLR"

NextOnline ==
    \/ \E X \in XInputs, y \in YInputs, ubgo \in BOOLEAN : Fit(X, y, ubgo)
    \/ \E X \in XInputs, y \in YInputs, ubgo \in BOOLEAN : FitUnchecked(X, y, ubgo)
    \/ \E x \in RowInputs, y \in YRowInputs, c \in {1, -1} : Update(x, y, c)
    \/ \E x \in ValidRowInputs, y \in ValidYRowInputs, c \in {1, -1} : UpdateUnchecked(x, y, c)
    \/ \E X \in XInputs : Predict(X)
    \/ CoeffsAsVec
    \/ GetInv

SpecOnline == InitOnline /\ [][NextOnline]_vars

\* ------------------------------------- specification: the batch models ---
InitBatch == Init /\ kind \in {"LR", "ElasticNet"}

NextBatch ==
    \/ \E c \in CoefInputs, b \in BiasVals : set_coeffs_and_bias(c, b)
    \/ \E X \in XInputs, y \in YInputs, ubgo \in BOOLEAN : Fit(X, y, ubgo)
    \/ \E X \in XInputs, y \in YInputs, ubgo \in BOOLEAN : FitUnchecked(X, y, ubgo)
    \/ \E X \in XInputs : Predict(X)
    \/ CoeffsAsVec

SpecBatch == InitBatch /\ [][NextBatch]_vars

\* ------------------- specification: the online model with its setter -----
NextOnlineSet ==
    \/ \E c \in CoefInputs, b \in SetBiasVals, i \in InvInputs :
          set_coeffs_bias_inverse(c, b, i)
    \/ \E X \in XInputs, y \in YInputs, ubgo \in BOOLEAN : Fit(X, y, ubgo)
    \/ \E x \in RowInputs, y \in YRowInputs, c \in {1, -1} : Update(x, y, c)
    \/ \E x \in ValidRowInputs, y \in ValidYRowInputs, c \in {1, -1} : UpdateUnchecked(x, y, c)

SpecOnlineSet == InitOnline /\ [][NextOnlineSet]_vars

\* ------------------------------- specification: fit on every model kind --
NextFit ==
    \/ \E X \in XInputs, y \in YInputs, ubgo \in BOOLEAN : Fit(X, y, ubgo)
    \/ CoeffsAsVec

SpecFit == Init /\ [][NextFit]_vars

\* --------------------- specification: the solver entry points and LR ----
\* drv holds the last direct call of a solver function and what came of it
Solved(fn, x, y, how, svd_ok, r) ==
    [pc |-> "solved", fn |-> fn, x |-> x, y |-> y, how |-> how, svd_ok |-> svd_ok,
     st |-> r.st, oob |-> r.oob, arm |-> r.arm,
     w |-> IF r.st = "ok" THEN r.w ELSE MatNew]

\* The solver functions are free functions that never touch a model, so a
\* run is either a sequence of fits of an LR model or direct solver calls
\* whose lambda, has_bias and method are those the new model was built with.
Standalone == alive /\ last.op = "new"

SolveLstsq(x, y, svd_ok) ==
    /\ Standalone
    /\ LET r == faer_solve_lstsq(x, y, lambda, fit_bias, SolveArm(solver, svd_ok))
       IN drv' = Solved("faer_solve_lstsq", x, y, solver, svd_ok,
                        [st |-> r.st, oob |-> r.oob,
                         arm |-> SolveArm(solver, svd_ok), w |-> r.w])
    /\ UNCHANGED <<model, last, alive>>

WeightedLstsq(x, y, svd_ok) ==
    /\ Standalone
    /\ drv' = Solved("faer_weighted_lstsq", x, y, solver, svd_ok,
                     faer_weighted_lstsq(x, y, x.nrows, solver, svd_ok))
    /\ UNCHANGED <<model, last, alive>>

SolveLstsqRcond(x, y, svd_ok) ==
    /\ Standalone
    /\ drv' = Solved("faer_solve_lstsq_rcond", x, y, "SVD", svd_ok,
                     faer_solve_lstsq_rcond(x, y, svd_ok))
    /\ UNCHANGED <<model, last, alive>>

SolveRidgeRcond(x, y, svd_ok) ==
    /\ Standalone
    /\ drv' = Solved("faer_solve_ridge_rcond", x, y, "SVD", svd_ok,
                     faer_solve_ridge_rcond(x, y, lambda, fit_bias, svd_ok))
    /\ UNCHANGED <<model, last, alive>>

InitSolve == Init /\ kind = "LR" /\ last.op = "new"

FitLR(X, y, ubgo) == drv.pc = "none" /\ Fit(X, y, ubgo)

SetLR(c, b) == drv.pc = "none" /\ set_coeffs_and_bias(c, b)

NextSolve ==
    \/ \E c \in CoefInputs, b \in SetBiasVals : SetLR(c, b)
    \/ \E X \in XInputs, y \in YInputs, ubgo \in BOOLEAN : FitLR(X, y, ubgo)
    \/ \E x \in XInputs, y \in YInputs, ok \in BOOLEAN : SolveLstsq(x, y, ok)
    \/ \E x \in XInputs, y \in YInputs, ok \in BOOLEAN : WeightedLstsq(x, y, ok)
    \/ \E x \in XInputs, y \in YInputs, ok \in BOOLEAN : SolveLstsqRcond(x, y, ok)
    \/ \E x \in XInputs, y \in YInputs, ok \in BOOLEAN : SolveRidgeRcond(x, y, ok)

SpecSolve == InitSolve /\ [][NextSolve]_vars

\* ====================================================== windowed drivers =
\* drv holds the locals of one run of a driver:
\*   which   "recursive" | "rolling" | "skipping"
\*   x, y    the data (xn x ncols, xn x 1); n window; m minimum valid rows
\*   j, left, right, cnt (non_null_cnt_in_window), out (the Vec `coefficients`)
\*   pc      position in the function; "done" after return, "panic" if aborted
\*   underflow  the usize decrement of cnt wrapped
\*   log     the calls made on online_lr, in order: [op, rows, c, applied]
\* The model variables hold online_lr = OnlineLR::new(lambda, false).
MaxXn == 3

RowKinds == {"fin", "nanx", "nany", "inf"}

\* row i (1-based) carries the value i, so that rows are told apart
DataX(kinds, ncols) ==
    MatFromFn(Len(kinds), ncols, LAMBDA i, j :
        IF kinds[i] = "nanx" /\ j = ncols THEN NaN
        ELSE IF kinds[i] = "inf" /\ j = 1 THEN PInf
        ELSE IF j = 1 THEN F(i) ELSE F(1))

DataY(kinds) ==
    MatFromFn(Len(kinds), 1, LAMBDA i, j : IF kinds[i] = "nany" THEN NaN ELSE F(i))

DrvInit(which, kinds, ncols, n, m) ==
    [pc |-> "start", which |-> which, x |-> DataX(kinds, ncols), y |-> DataY(kinds),
     n |-> n, m |-> m, j |-> 0, left |-> 0, right |-> n, cnt |-> 0,
     out |-> <<>>, underflow |-> FALSE, log |-> <<>>]

InitDriver(which) ==
    /\ \E lam \in Lambdas : New("OnlineLR", "QR", lam, FALSE)
    /\ alive = TRUE
    /\ \E xn \in 1..MaxXn, ncols \in 1..MaxCols :
         \E kinds \in [1..xn -> RowKinds], n \in 1..xn :
           \E m \in (IF which = "skipping" THEN 1..n ELSE {0}) :
             drv = DrvInit(which, kinds, ncols, n, m)

xn == drv.x.nrows

LogFit(rows) == [op |-> "fit", rows |-> rows, c |-> 0, applied |-> TRUE]
LogUpdate(i, c, applied) == [op |-> "update", rows |-> <<i>>, c |-> c, applied |-> applied]

\* the fit of the first window: lines 761-768 and 788-795
StartFit(next) ==
    /\ alive
    /\ drv.pc = "start"
    /\ RunFit("fit_unchecked", RowSlice(drv.x, 0, drv.n), RowSlice(drv.y, 0, drv.n), TRUE)
    /\ drv' = [drv EXCEPT
                 !.pc = IF alive' THEN next ELSE "panic",
                 !.j = drv.n,
                 !.out = IF alive' THEN Append(@, coefficients') ELSE @,
                 !.log = Append(@, LogFit([i \in 1..drv.n |-> i - 1]))]

\* one call online_lr.update(row i, c) of a driver; push: the snapshot follows
DriverUpdate(i, c, next, push) ==
    /\ alive
    /\ update(Row(drv.x, i), Row(drv.y, i), c)
    /\ drv' = [drv EXCEPT
                 !.pc = IF alive' THEN next ELSE "panic",
                 !.j = IF push THEN @ + 1 ELSE @,
                 !.out = IF push /\ alive' THEN Append(@, coefficients') ELSE @,
                 !.log = Append(@, LogUpdate(i, c, last'.wood /\ alive'))]

Return(at) ==
    /\ alive
    /\ drv.pc = at
    /\ drv.j = xn
    /\ drv' = [drv EXCEPT !.pc = "done"]
    /\ UNCHANGED <<model, last, alive>>

\* ------------------------------------------------ faer_recursive_lstsq ---
RecStart == drv.which = "recursive" /\ StartFit("loop")

RecStep ==
    /\ drv.which = "recursive"
    /\ drv.pc = "loop"
    /\ drv.j < xn
    /\ DriverUpdate(drv.j, 1, "loop", TRUE)

RecReturn == drv.which = "recursive" /\ Return("loop")

InitRec == InitDriver("recursive")
NextRec == RecStart \/ RecStep \/ RecReturn
SpecRec == InitRec /\ [][NextRec]_vars

\* -------------------------------------------------- faer_rolling_lstsq ---
RollStart == drv.which = "rolling" /\ StartFit("remove")

RollRemove ==
    /\ drv.which = "rolling"
    /\ drv.pc = "remove"
    /\ drv.j < xn
    /\ DriverUpdate(drv.j - drv.n, -1, "add", FALSE)

RollAdd ==
    /\ drv.which = "rolling"
    /\ drv.pc = "add"
    /\ DriverUpdate(drv.j, 1, "remove", TRUE)

RollReturn == drv.which = "rolling" /\ Return("remove")

InitRoll == InitDriver("rolling")
NextRoll == RollStart \/ RollRemove \/ RollAdd \/ RollReturn
SpecRoll == InitRoll /\ [][NextRoll]_vars

\* ----------------------------------------- faer_rolling_skipping_lstsq ---
\* cnt is a usize: a value below zero stands for that value + 2^64, which is
\* what `cnt -= 1` leaves at cnt = 0 when overflow checks are off
UsizeGe(a, b) == IF a < 0 THEN b >= 0 \/ a >= b ELSE b >= 0 /\ a >= b

\* !(x_i.iter().any(is_nan) | y_i.iter().any(is_nan)) for the 0-based row i
RowIsValid(i) ==
    ~(\/ \E j \in 1..drv.x.ncols : is_nan(drv.x.data[i + 1][j])
      \/ \E j \in 1..drv.y.ncols : is_nan(drv.y.data[i + 1][j]))

\* a scan that keeps every row of the window
ScanAll(lo, hi) == [k \in 1..(hi - lo) |-> lo + k - 1]

\* the rows of left..right that pass the scan, in order (0-based indices)
RECURSIVE ScanValid(_, _)
ScanValid(lo, hi) ==
    IF lo >= hi THEN <<>>
    ELSE (IF RowIsValid(lo) THEN <<lo>> ELSE <<>>) \o ScanValid(lo + 1, hi)

\* MatRef::from_row_major_slice(&x_slice, y_slice.len(), ncols) for the rows idx
PickRows(mat, idx) ==
    [nrows |-> Len(idx), ncols |-> mat.ncols,
     data |-> [k \in 1..Len(idx) |-> mat.data[idx[k] + 1]]]

\* one iteration of `while right <= xn` (lines 839-867)
SkipScan ==
    /\ alive
    /\ drv.which = "skipping"
    /\ drv.pc = "start"
    /\ drv.right <= xn
    /\ LET idx == ScanValid(drv.left, drv.right)
           non_null_cnt_in_window == Len(idx)
       IN IF UsizeGe(non_null_cnt_in_window, drv.m)
          THEN /\ RunFit("fit_unchecked", PickRows(drv.x, idx), PickRows(drv.y, idx), TRUE)
               /\ drv' = [drv EXCEPT
                            !.pc = IF alive' THEN "check" ELSE "panic",
                            !.cnt = non_null_cnt_in_window,
                            !.out = IF alive' THEN Append(@, coefficients') ELSE @,
                            !.log = Append(@, LogFit(idx))]
          ELSE /\ drv' = [drv EXCEPT
                            !.cnt = non_null_cnt_in_window,
                            !.left = @ + 1,
                            !.right = @ + 1,
                            !.out = Append(@, MatNew)]
               /\ UNCHANGED <<model, last, alive>>

\* the loop condition fails: right > xn
SkipScanExit ==
    /\ alive
    /\ drv.which = "skipping"
    /\ drv.pc = "start"
    /\ drv.right > xn
    /\ drv' = [drv EXCEPT !.pc = "check"]
    /\ UNCHANGED <<model, last, alive>>

\* `if right >= xn { return coefficients; }` (lines 869-871)
SkipCheck ==
    /\ alive
    /\ drv.which = "skipping"
    /\ drv.pc = "check"
    /\ drv' = [drv EXCEPT !.pc = IF drv.right >= xn THEN "done" ELSE "remove",
                          !.j = drv.right]
    /\ UNCHANGED <<model, last, alive>>

\* lines 874-880: the outgoing row j - n
SkipRemove ==
    /\ alive
    /\ drv.which = "skipping"
    /\ drv.pc = "remove"
    /\ drv.j < xn
    /\ LET i == drv.j - drv.n
       IN IF ~(has_nan(Row(drv.x, i)) \/ has_nan(Row(drv.y, i)))
          THEN /\ RunUpdate("update_unchecked", Row(drv.x, i), Row(drv.y, i), -1)
               /\ drv' = [drv EXCEPT
                            !.pc = IF alive' THEN "add" ELSE "panic",
                            !.cnt = @ - 1,
                            !.underflow = (drv.cnt = 0),
                            !.log = Append(@, LogUpdate(i, -1, alive'))]
          ELSE /\ drv' = [drv EXCEPT !.pc = "add"]
               /\ UNCHANGED <<model, last, alive>>

\* lines 882-893: the incoming row j, then the snapshot or the placeholder
SkipAdd ==
    /\ alive
    /\ drv.which = "skipping"
    /\ drv.pc = "add"
    /\ LET i == drv.j
           valid == ~(has_nan(Row(drv.x, i)) \/ has_nan(Row(drv.y, i)))
           non_null_cnt_in_window == IF valid THEN drv.cnt + 1 ELSE drv.cnt
       IN /\ IF valid
             THEN RunUpdate("update_unchecked", Row(drv.x, i), Row(drv.y, i), 1)
             ELSE UNCHANGED <<model, last, alive>>
          /\ drv' = [drv EXCEPT
                       !.pc = IF alive' THEN "remove" ELSE "panic",
                       !.cnt = non_null_cnt_in_window,
                       !.j = @ + 1,
                       !.out = IF ~alive' THEN @
                               ELSE IF UsizeGe(non_null_cnt_in_window, drv.m)
                                    THEN Append(@, coefficients')
                                    ELSE Append(@, MatNew),
                       !.log = IF valid THEN Append(@, LogUpdate(i, 1, alive')) ELSE @]

SkipReturn == drv.which = "skipping" /\ Return("remove")

InitSkip == InitDriver("skipping")
NextSkip == SkipScan \/ SkipScanExit \/ SkipCheck \/ SkipRemove \/ SkipAdd \/ SkipReturn
SpecSkip == InitSkip /\ [][NextSkip]_vars

\* ============================================= faer_coordinate_descent ===
\* One call of faer_coordinate_descent as ElasticNet::fit makes it, step by
\* step.  drv holds its locals:
\*   ncols, has_bias, n1, max_iter; tol_pos: 0 < tol (false for tol <= 0, NaN)
\*   iter     sweeps entered so far (the `for _ in 0..max_iter` counter)
\*   j        the inner loop index
\*   beta     the weights; an entry is written as the sweep that set it and
\*            the versions of the weights it was computed from
\*   max_ge   max_change >= tol so far in this sweep
\*   converge, printed (the println! diagnostic), ret (the value returned)
\*   visits   the writes to beta in order; sweeps: per finished sweep, for
\*            each feature coordinate whether |after - before| >= tol
MaxIter == 2

\* sweep that last wrote each entry of beta (0: still the initial zero)
Versions(beta) == [i \in 1..Len(beta) |-> beta[i].ver]

Zero == [op |-> "zero", j |-> 0, ver |-> 0, arg |-> <<>>]

\* soft_threshold_l1(xty[j] - (xtx_j * beta)[0], m * l1_reg) / norms[j],
\* computed in sweep `sweep` from beta with beta[j] set to 0
SoftUpdate(j, sweep, beta) ==
    [op |-> "soft_threshold_l1/norm", j |-> j, ver |-> sweep,
     arg |-> [i \in 1..Len(beta) |-> IF i = j + 1 THEN 0 ELSE beta[i].ver]]

\* (y - x[.., 0..n1] * beta[0..n1]).sum() / m
MeanResidual(n1, sweep, beta) ==
    [op |-> "mean_residual", j |-> n1, ver |-> sweep,
     arg |-> [i \in 1..n1 |-> beta[i].ver]]

\* converge = max_change < tol, where max_change starts at 0
ConvergeNever(max_ge, tol_pos) == FALSE

Converge(max_ge, tol_pos) == tol_pos /\ ~max_ge

\* a sweep that also runs over the bias column
SweepAllColumns(ncols, has_bias) == ncols

\* n1 = ncols.abs_diff(has_bias as usize)
SweepBound(ncols, has_bias) == abs_diff(ncols, IF has_bias THEN 1 ELSE 0)

CdInit(X, fb, max_iter, tol_pos) ==
    LET x == IF fb THEN ConcatOnes(X) ELSE X
    IN [pc |-> "loop", which |-> "cd", ncols |-> x.ncols, has_bias |-> fb,
        n1 |-> SweepBound(x.ncols, fb), max_iter |-> max_iter, tol_pos |-> tol_pos,
        iter |-> 0, j |-> 0, beta |-> [i \in 1..x.ncols |-> Zero],
        max_ge |-> FALSE, converge |-> FALSE, printed |-> FALSE, ret |-> <<>>,
        visits |-> <<>>, cur |-> <<>>, sweeps |-> <<>>]

\* ElasticNet::new(.., fit_bias, tol, max_iter) and a fit that passed validation
InitCD ==
    /\ \E fb \in BOOLEAN : New("ElasticNet", "QR", 0, fb)
    /\ alive = TRUE
    /\ \E X \in {M \in XInputs : M.nrows >= 1}, max_iter \in 0..MaxIter, tol_pos \in BOOLEAN :
         drv = CdInit(X, fit_bias, max_iter, tol_pos)

\* `for _ in 0..max_iter`: one more sweep starts
CdEnter ==
    /\ drv.pc = "loop"
    /\ drv.iter < drv.max_iter
    /\ drv' = [drv EXCEPT !.pc = "feat", !.iter = @ + 1, !.j = 0,
                          !.max_ge = FALSE, !.cur = <<>>]
    /\ UNCHANGED <<model, last, alive>>

\* the range 0..max_iter is exhausted
CdExhaust ==
    /\ drv.pc = "loop"
    /\ drv.iter >= drv.max_iter
    /\ drv' = [drv EXCEPT !.pc = "exit"]
    /\ UNCHANGED <<model, last, alive>>

\* the body of `for j in 0..n1`; ge: |after - before| >= tol
CdFeature(ge) ==
    /\ drv.pc = "feat"
    /\ drv.j < drv.n1
    /\ LET after == SoftUpdate(drv.j, drv.iter, drv.beta)
       IN drv' = [drv EXCEPT !.beta[drv.j + 1] = after,
                             !.max_ge = @ \/ ge,
                             !.j = @ + 1,
                             !.cur = Append(@, ge),
                             !.visits = Append(@, [at |-> drv.j, sweep |-> drv.iter, val |-> after])]
    /\ UNCHANGED <<model, last, alive>>

\* after the inner loop: the bias, then `converge = max_change < tol` and break
CdSweepEnd ==
    /\ drv.pc = "feat"
    /\ drv.j >= drv.n1
    /\ LET ss == MeanResidual(drv.n1, drv.iter, drv.beta)
           conv == Converge(drv.max_ge, drv.tol_pos)
       IN drv' = [drv EXCEPT
                    !.beta = IF drv.has_bias THEN [@ EXCEPT ![drv.n1 + 1] = ss] ELSE @,
                    !.visits = IF drv.has_bias
                               THEN Append(@, [at |-> drv.n1, sweep |-> drv.iter, val |-> ss])
                               ELSE @,
                    !.converge = conv,
                    !.sweeps = Append(@, drv.cur),
                    !.pc = IF conv THEN "exit" ELSE "loop"]
    /\ UNCHANGED <<model, last, alive>>

\* `if !converge { println!(..) }` and the return of beta
CdReturn ==
    /\ drv.pc = "exit"
    /\ drv' = [drv EXCEPT !.pc = "done", !.printed = ~drv.converge, !.ret = drv.beta]
    /\ UNCHANGED <<model, last, alive>>

NextCD == CdEnter \/ CdExhaust \/ (\E ge \in BOOLEAN : CdFeature(ge)) \/ CdSweepEnd \/ CdReturn

SpecCD == InitCD /\ [][NextCD]_vars

\* the function runs to its end once called: no step waits on anything
FairSpecCD == SpecCD /\ WF_vars(NextCD)

\* ================================================================ claims =
\* what the claims say about inputs, stated apart from the model's operators
ContainsNaN(mat) ==
    \E i \in 1..mat.nrows : \E j \in 1..mat.ncols : mat.data[i][j] = NaN

ContainsNonFinite(mat) ==
    \E i \in 1..mat.nrows : \E j \in 1..mat.ncols : mat.data[i][j] \in {NaN, PInf, NInf}

VectorEmpty(mat) == mat.nrows * mat.ncols = 0

\* C1: predict on a model that has never been fit (coefficients still the
\* empty container) returns MatNotLearnedYet for every X, whatever X.ncols is.
C1_PredictUnfitIsModelNotFit ==
    (last.op = "predict" /\ coefficients = MatNew) => last.res = "MatNotLearnedYet"

\* C2: fit returns DimensionMismatch when the row counts differ, else
\* NotEnoughData when rows < cols (closed-form models) or rows = 0, and in
\* every remaining case returns Ok with the model fit afterwards.
C2_Expected(X, y) ==
    IF X.nrows # y.nrows THEN "DimensionMismatch"
    ELSE IF X.nrows = 0 THEN "NotEnoughData"
    ELSE IF kind \in {"LR", "OnlineLR"} /\ X.nrows < X.ncols THEN "NotEnoughData"
    ELSE "Ok"

C2_FitValidation ==
    last.op = "fit" =>
        /\ last.res = C2_Expected(last.x, last.y)
        /\ last.res = "Ok" => is_fit(coefficients)

\* C3: update / update_unchecked on an online model that was never fit is
\* rejected with MatNotLearnedYet and does not run the Woodbury step.
C3_UpdateBeforeFitRejected ==
    (last.op \in {"update", "update_unchecked"} /\ ~last.pre_fit) =>
        (last.res = "MatNotLearnedYet" /\ ~last.wood)

\* C4 as stated: update skips (no error, nothing runs) every row with a
\* non-finite value (NaN, +inf, -inf) and applies every all-finite row.
C4_SkipsNonFiniteRows ==
    last.op = "update" =>
        IF ContainsNonFinite(last.x) \/ ContainsNonFinite(last.y)
        THEN last.res = "Ok" /\ ~last.wood
        ELSE last.wood

\* C4 amended: update skips exactly the rows that contain a NaN: such a call
\* raises no error and leaves coefficients, bias and inverse unchanged; every
\* row without NaN (rows with +inf or -inf included) is handed to
\* update_unchecked, which enters the Woodbury step.
C4_SkipsNaNRows ==
    [][last'.op = "update" =>
          IF ContainsNaN(last'.x) \/ ContainsNaN(last'.y)
          THEN /\ last'.res = "Ok"
               /\ ~last'.wood
               /\ alive'
               /\ UNCHANGED <<coefficients, bias, inv>>
          ELSE last'.wood]_vars

C4_Witness ==
    /\ last.op = "update"
    /\ ~ContainsNaN(last.x)
    /\ ContainsNaN(last.y)
    /\ is_fit(coefficients)
    /\ ~last.wood
    /\ alive

\* C9: is_fit() holds exactly when the coefficient vector is non-empty, and
\* coeffs_as_vec / get_inv return MatNotLearnedYet whenever the coefficient
\* vector / the inverse is empty.
C9_FitIffNonEmpty ==
    /\ is_fit(coefficients) <=> ~VectorEmpty(coefficients)
    /\ (last.op = "coeffs_as_vec" /\ VectorEmpty(coefficients))
           => last.res = "MatNotLearnedYet"
    /\ (last.op = "get_inv" /\ VectorEmpty(inv)) => last.res = "MatNotLearnedYet"

\* C10: after set_coeffs_and_bias(c, b) or from_values(c, b), coefficients()
\* is exactly c in order, bias() is exactly b, and fit_bias() holds iff
\* |b| > f64::EPSILON, whatever the model held before.
C10_SetterRoundTrip ==
    last.op \in {"set_coeffs_and_bias", "from_values"} =>
        LET c == col_as_slice(last.x)
            b == last.y.data[1][1]
        IN /\ shape(coefficients) = <<Len(c), 1>>
           /\ \A i \in 1..Len(c) : coefficients.data[i][1] = c[i]
           /\ bias = b
           /\ fit_bias <=> \/ b.k = "inf"
                           \/ b.k = "fin" /\ (b.v > EPSILON \/ -b.v > EPSILON)

C10_Witness ==
    /\ last.op = "set_coeffs_and_bias"
    /\ last.pre_fit
    /\ coefficients.nrows = 2
    /\ coefficients.data[1][1] # coefficients.data[2][1]
    /\ bias = F(EPSILON)
    /\ ~fit_bias

\* ------------------------------------------------------ driver claims ----
RowValidC(i) == ~ContainsNaN(Row(drv.x, i)) /\ ~ContainsNaN(Row(drv.y, i))

\* NaN-free rows of the window that starts at row p
ValidInWindow(p) == {i \in p..(p + drv.n - 1) : RowValidC(i)}

\* the rows a model has absorbed after the calls of lg
RECURSIVE Absorbed(_)
Absorbed(lg) ==
    IF lg = <<>> THEN {}
    ELSE LET e == lg[Len(lg)]
             before == Absorbed(SubSeq(lg, 1, Len(lg) - 1))
         IN IF e.op = "fit" THEN {e.rows[k] : k \in 1..Len(e.rows)}
            ELSE IF ~e.applied THEN before
            ELSE IF e.c = 1 THEN before \cup {e.rows[1]}
            ELSE before \ {e.rows[1]}

FitsIn(lg) == {k \in 1..Len(lg) : lg[k].op = "fit"}

\* C5: the rolling driver makes, for every j in n..xn, one remove update on
\* row j-n and then one add update on row j, so that the rows absorbed when
\* the snapshot of position j is emitted are exactly rows j-n+1..j (n rows).
C5_RollingWindowExact ==
    drv.which = "rolling" =>
        /\ drv.pc # "panic"
        /\ drv.pc \in {"remove", "done"} =>
              /\ Len(drv.out) = drv.j - drv.n + 1
              /\ Absorbed(drv.log) = (drv.j - drv.n)..(drv.j - 1)
              /\ Cardinality(Absorbed(drv.log)) = drv.n
              /\ \A j \in drv.n..(drv.j - 1) :
                    LET k == 2 * (j - drv.n) + 2
                    IN /\ drv.log[k] = LogUpdate(j - drv.n, -1, TRUE)
                       /\ drv.log[k + 1] = LogUpdate(j, 1, TRUE)

\* C6: the recursive driver fits once on rows 0..n-1, then makes for each row
\* j = n..xn-1 in order at most one add update and never a remove, and
\* returns xn-n+1 snapshots: one for the fit and one per later row; the
\* snapshot of a row skipped for NaN equals the previous one.
C6_RecursiveSnapshots ==
    drv.which = "recursive" =>
        /\ drv.pc # "panic"
        /\ drv.pc \in {"loop", "done"} =>
              /\ drv.log[1] = LogFit([i \in 1..drv.n |-> i - 1])
              /\ Len(drv.log) = drv.j - drv.n + 1
              /\ Len(drv.out) = drv.j - drv.n + 1
              /\ \A k \in 2..Len(drv.log) :
                    /\ drv.log[k].op = "update"
                    /\ drv.log[k].c = 1
                    /\ drv.log[k].rows = <<drv.n + k - 2>>
                    /\ drv.log[k].applied <=> RowValidC(drv.n + k - 2)
                    /\ ~drv.log[k].applied => drv.out[k] = drv.out[k - 1]
        /\ drv.pc = "done" => Len(drv.out) = xn - drv.n + 1

\* C7: the skipping driver returns one entry per window position, xn-n+1 in
\* all and in order, and the entry of a position is the (0,0) placeholder
\* exactly when its window holds fewer than m NaN-free rows.
C7_SkippingEntries ==
    drv.which = "skipping" =>
        /\ drv.pc # "panic"
        /\ \A k \in 1..Len(drv.out) :
              (drv.out[k] = MatNew) <=> (Cardinality(ValidInWindow(k - 1)) < drv.m)
        /\ drv.pc = "done" => Len(drv.out) = xn - drv.n + 1

\* C8: the skipping driver fits from scratch at most once, at the first
\* window position with at least m NaN-free rows, on exactly the NaN-free
\* rows of that window in order; no update precedes the fit and no fit
\* follows it.
C8_SingleBootstrapFit ==
    drv.which = "skipping" =>
        /\ Cardinality(FitsIn(drv.log)) <= 1
        /\ drv.log # <<>> =>
              /\ drv.log[1].op = "fit"
              /\ \A q \in 0..(drv.left - 1) : Cardinality(ValidInWindow(q)) < drv.m
              /\ Cardinality(ValidInWindow(drv.left)) >= drv.m
              /\ \A k \in 1..Len(drv.log[1].rows) :
                    /\ drv.log[1].rows[k] \in ValidInWindow(drv.left)
                    /\ k > 1 => drv.log[1].rows[k - 1] < drv.log[1].rows[k]
              /\ Len(drv.log[1].rows) = Cardinality(ValidInWindow(drv.left))
        /\ (drv.log = <<>> /\ drv.pc \in {"check", "done"}) =>
              \A q \in 0..(xn - drv.n) : Cardinality(ValidInWindow(q)) < drv.m

\* a finished run whose count fell below m after the fit and recovered
C8_Witness ==
    /\ drv.which = "skipping"
    /\ drv.pc = "done"
    /\ Cardinality(FitsIn(drv.log)) = 1
    /\ \E k1, k2 \in 1..Len(drv.out) :
          /\ drv.left + 1 < k1
          /\ k1 < k2
          /\ drv.out[k1] = MatNew
          /\ drv.out[k2] # MatNew

\* ------------------------------------------------- claims C11 .. C20 ----
\* C11: after every successful fit, update, update_unchecked or
\* set_coeffs_bias_inverse on an online model the inverse is square and its
\* dimension is len(coefficients) + 1 when fit_bias holds, len(coefficients)
\* otherwise.
C11_InverseDimension ==
    (/\ kind = "OnlineLR"
     /\ last.res = "Ok"
     /\ \/ last.op \in {"fit", "fit_unchecked", "set_coeffs_bias_inverse"}
        \/ last.op \in {"update", "update_unchecked"} /\ last.wood)
    => /\ inv.nrows = inv.ncols
       /\ inv.nrows = coefficients.nrows + (IF fit_bias THEN 1 ELSE 0)

\* C12: in every fit of an LR or OnlineLR model with lambda > 0, lambda is
\* added to the diagonal entry of every feature column of X and to no other:
\* the written indices are exactly 0 .. X.ncols - 1, with or without a bias.
C12_RidgeOnFeatureDiagonal ==
    (/\ kind \in {"LR", "OnlineLR"}
     /\ last.op \in {"fit", "fit_unchecked"}
     /\ last.res = "Ok"
     /\ lambda > 0
     /\ coefficients.nrows >= 1)
    => TermOf(coefficients)[1].reg = 0..(last.x.ncols - 1)

\* C13: a failure of the thin SVD is never surfaced: in faer_solve_lstsq and
\* faer_weighted_lstsq with method SVD and in faer_solve_lstsq_rcond and
\* faer_solve_ridge_rcond, a call whose factorization fails (and whose inputs
\* are otherwise sound) still returns a solution, computed by the QR path.
C13_SvdFailureFallsBack ==
    (/\ drv.pc = "solved"
     /\ drv.how = "SVD"
     /\ ~drv.svd_ok
     /\ drv.x.nrows = drv.y.nrows
     /\ ~drv.oob)
    => /\ drv.st = "ok"
       /\ drv.arm = "QR"
       /\ drv.w.nrows = drv.x.ncols

\* C14: a solve requested with method Choleskey never substitutes another
\* method: faer_solve_lstsq and faer_weighted_lstsq end in todo!() and return
\* nothing, and LR::fit with the Choleskey solver, once its validation has
\* passed, ends in todo!() with coefficients and bias as before the call.
C14_CholeskeyIsUnimplemented ==
    [][/\ (/\ drv'.pc = "solved"
            /\ drv'.how = "Choleskey"
            /\ drv'.fn \in {"faer_solve_lstsq", "faer_weighted_lstsq"})
           => /\ drv'.st = "todo"
              /\ drv'.arm = "Choleskey"
              /\ drv'.w = MatNew
       /\ (/\ kind = "LR"
            /\ solver = "Choleskey"
            /\ last'.op = "fit"
            /\ FitCheck(last'.x, last'.y) = "Ok")
           => /\ last'.res = "todo"
              /\ ~alive'
              /\ UNCHANGED <<coefficients, bias, fit_bias>>]_vars

\* a fit by Choleskey on a model that already held two coefficients
C14_Witness ==
    /\ solver = "Choleskey"
    /\ last.op = "fit"
    /\ last.res = "todo"
    /\ last.pre_fit
    /\ coefficients.nrows = 2
    /\ ~alive

\* C15: on a fitted model predict(X) returns DimensionMismatch exactly when
\* X.ncols differs from the number of coefficients; otherwise it returns one
\* row per row of X, entry i being (X * coefficients)[i] plus the bias when
\* fit_bias holds and |bias| > f64::EPSILON, and without the bias in every
\* other case; the model is left unchanged.
C15_PredictValue ==
    [][(last'.op = "predict" /\ last'.pre_fit) =>
         /\ UNCHANGED model
         /\ IF last'.x.ncols # coefficients.nrows
            THEN last'.res = "DimensionMismatch" /\ last'.y = MatNew
            ELSE /\ last'.res = "Ok"
                 /\ shape(last'.y) = <<last'.x.nrows, 1>>
                 /\ \A i \in 1..last'.x.nrows :
                       LET e == last'.y.data[i][1].t[1]
                           literal == bias.k \in {"fin", "nan", "inf"}
                           big == \/ bias.k = "inf"
                                  \/ bias.k = "fin" /\ (bias.v > EPSILON \/ -bias.v > EPSILON)
                       IN /\ e.x = [nrows |-> 1, ncols |-> last'.x.ncols,
                                    data |-> <<last'.x.data[i]>>]
                          /\ e.y = coefficients
                          /\ (fit_bias /\ literal /\ big) => (e.how = "add" /\ e.lam = bias)
                          /\ (fit_bias /\ ~literal)
                                => (e.how = "add_if_abs_gt_eps" /\ e.lam = bias)
                          /\ (~fit_bias \/ (literal /\ ~big)) => e.how = "none"]_vars

C15_Witness ==
    /\ last.op = "predict"
    /\ last.res = "Ok"
    /\ last.x.ncols = 2
    /\ last.y.nrows >= 1
    /\ fit_bias
    /\ bias = F(2)

\* C16: every operation that replaces the coefficient vector assigns the bias
\* in the same operation: a setter stores its bias argument, and a fit or an
\* update leaves a bias computed by the solve that computed the coefficients,
\* never a bias kept from an earlier fit or setter call (a bias other than
\* the 0.0 of the constructor).
C16_PairReplacedTogether ==
    [][(/\ last'.res = "Ok"
        /\ coefficients' # coefficients
        /\ coefficients'.nrows >= 1
        /\ bias # F(0))
       => CASE last'.op = "set_coeffs_and_bias" -> bias' = last'.y.data[1][1]
            [] last'.op \in {"fit", "fit_unchecked", "update", "update_unchecked"} ->
                 bias'.k = "sol" /\ bias'.t = TermOf(coefficients')
            [] OTHER -> TRUE]_vars

\* C17: after the bootstrap fit of the skipping driver every slide step j
\* removes row j-n iff it is valid and then adds row j iff it is valid, also
\* while placeholders are emitted; the running count equals the number of
\* valid rows of the current window and the number of rows absorbed by the
\* model, and its decrement never underflows.
C17_SlideKeepsCount ==
    (drv.which = "skipping" /\ drv.log # <<>>) =>
        /\ drv.pc # "panic"
        /\ ~drv.underflow
        /\ drv.pc \in {"remove", "done"} =>
              /\ Absorbed(drv.log) = ValidInWindow(drv.j - drv.n)
              /\ drv.cnt = Cardinality(ValidInWindow(drv.j - drv.n))
        /\ drv.pc = "add" =>
              /\ Absorbed(drv.log) = ValidInWindow(drv.j - drv.n) \ {drv.j - drv.n}
              /\ drv.cnt = Cardinality(Absorbed(drv.log))

\* ------------------------------------------- coordinate descent claims ---
\* the maximum change of a finished sweep is below tol
BelowTol(sw) == drv.tol_pos /\ \A i \in 1..Len(sw) : ~sw[i]

C18_Bounded ==
    drv.which = "cd" =>
        /\ drv.iter <= drv.max_iter
        /\ Len(drv.sweeps) <= drv.max_iter
        /\ \A k \in 1..(Len(drv.sweeps) - 1) : ~BelowTol(drv.sweeps[k])
        /\ drv.pc \in {"loop", "feat"} =>
              \A k \in 1..Len(drv.sweeps) : ~BelowTol(drv.sweeps[k])
        /\ drv.pc = "done" =>
              /\ drv.ret = drv.beta
              /\ Len(drv.ret) = drv.ncols
              /\ \/ /\ drv.sweeps # <<>>
                    /\ BelowTol(drv.sweeps[Len(drv.sweeps)])
                    /\ ~drv.printed
                 \/ /\ Len(drv.sweeps) = drv.max_iter
                    /\ \A k \in 1..Len(drv.sweeps) : ~BelowTol(drv.sweeps[k])
                    /\ drv.printed

\* C18: coordinate descent always terminates: it runs at most max_iter
\* sweeps, stops right after the first sweep whose maximum change is below
\* tol, and when max_iter sweeps pass without convergence (max_iter = 0
\* included) it prints the diagnostic and still returns the weights.
C18_CdTerminates == []C18_Bounded /\ <>(drv.pc = "done")

C18_Witness ==
    /\ drv.which = "cd"
    /\ drv.pc = "done"
    /\ drv.n1 >= 1
    /\ Len(drv.sweeps) = 2
    /\ drv.converge
    /\ ~drv.printed

\* C19: every sweep visits the feature coordinates 0, 1, .., n1-1 in this
\* order (n1 = ncols - 1 with a bias, ncols without), sets each to
\* soft_threshold_l1(r_j, m * l1_reg) / norms[j] with r_j computed from the
\* current weights with coordinate j zeroed, never soft-thresholds the bias
\* slot, and with a bias overwrites that slot once per sweep, after the
\* features, by the mean residual of the feature-only prediction.
C19_CyclicSweep ==
    drv.which = "cd" =>
        LET feats == drv.ncols - (IF drv.has_bias THEN 1 ELSE 0)
            per == drv.ncols
        IN /\ \A k \in 1..Len(drv.visits) :
                 LET v == drv.visits[k]
                     pos == (k - 1) % per
                     sw == ((k - 1) \div per) + 1
                 IN /\ v.at = pos
                    /\ v.sweep = sw
                    /\ v.val.ver = sw
                    /\ pos < feats =>
                          /\ v.val.op = "soft_threshold_l1/norm"
                          /\ v.val.j = pos
                          /\ v.val.arg =
                                [i \in 1..drv.ncols |->
                                   IF i = pos + 1 THEN 0
                                   ELSE IF i - 1 < pos THEN sw ELSE sw - 1]
                    /\ pos >= feats =>
                          /\ drv.has_bias
                          /\ v.val.op = "mean_residual"
                          /\ v.val.arg = [i \in 1..feats |-> sw]
           /\ drv.pc \in {"loop", "exit", "done"} =>
                 /\ Len(drv.visits) = Len(drv.sweeps) * per
                 /\ \A i \in 1..drv.ncols : drv.beta[i].ver = Len(drv.sweeps)

C19_Witness ==
    /\ drv.which = "cd"
    /\ drv.pc = "done"
    /\ drv.has_bias
    /\ drv.ncols = 3
    /\ Len(drv.sweeps) = 2
    /\ Len(drv.visits) = 6

\* C20: in every fit that passed the validation of fit (X with zero columns
\* included), every index i of a get_mut_unchecked(i, i) on the
\* normal-equations matrix is below the number of columns of the matrix.
C20_DiagIndicesInRange ==
    (last.op = "fit" /\ FitCheck(last.x, last.y) = "Ok") => ~last.ub

\* -------------------------------------------------- pl_recursive_lstsq ---
\* The expression over its input series: series 0 is the target, series
\* 1..ncols the features.  On top of the locals of faer_recursive_lstsq, drv
\* holds
\*   nulls      the null slots of the inputs, as <<row, series>> (0-based)
\*   skip_null  kwargs.skip_null
\*   res        "none" until the expression returns, then "Ok" or the error
\*   rows       the struct rows of the returned series, each with the
\*              validity of its two fields
\* PolarsError::ComputeError, told apart by message
NullsError == "ComputeError: data contain nulls"
DataError == "ComputeError: #Data < #features"

PlRowKinds == {"fin", "nanx"}

\* null slots tried: none, the first target value, the last value of the
\* last feature
NullInputs(rows, ncols) == {{}, {<<0, 0>>}, {<<rows - 1, ncols>>}}

\* Series::has_validity of input series s
has_validity(s) == \E r \in 0..(drv.x.nrows - 1) : <<r, s>> \in drv.nulls

\* inputs.iter().fold(false, |acc, s| acc | s.has_validity())
AnyHasValidity == \E s \in 0..drv.x.ncols : has_validity(s)

\* the rows mask keeps: no input series is null there (0-based, in order)
RECURSIVE NotNullRows(_, _)
NotNullRows(lo, hi) ==
    IF lo >= hi THEN <<>>
    ELSE (IF \E s \in 0..drv.x.ncols : <<lo, s>> \in drv.nulls THEN <<>> ELSE <<lo>>)
             \o NotNullRows(lo + 1, hi)

\* series_to_mat_for_lstsq(inputs, add_bias, skip_null): the error, or the
\* target and feature columns of the frame it converts
series_to_mat_for_lstsq(add_bias, skip_null) ==
    LET n_features == abs_diff(drv.x.ncols + 1, 1)
        has_null == AnyHasValidity
        kept == IF has_null /\ skip_null
                THEN NotNullRows(0, drv.x.nrows)
                ELSE [k \in 1..drv.x.nrows |-> k - 1]
        height == Len(kept)
        feats == PickRows(drv.x, kept)
    IN IF has_null /\ ~skip_null
       THEN [st |-> NullsError, x |-> MatNew, y |-> MatNew]
       ELSE IF height < n_features
       THEN [st |-> DataError, x |-> MatNew, y |-> MatNew]
       ELSE [st |-> "Ok",
             x |-> IF add_bias THEN ConcatOnes(feats) ELSE feats,
             y |-> PickRows(drv.y, kept)]

\* (row * &coefficients).read(0, 0)
RowTimes(row, coefs) ==
    [k |-> "dot", v |-> 0,
     t |-> <<Event("predict", row, coefs, 0, F(0), {}, "none")>>]

NullRow == [coeffs_valid |-> FALSE, coeffs |-> <<>>,
            prediction_valid |-> FALSE, prediction |-> F(0)]

\* the row appended for snapshot i (0-based) of coeffs
SnapshotRow(m, i) ==
    [coeffs_valid |-> TRUE, coeffs |-> col_as_slice(drv.out[i + 1]),
     prediction_valid |-> TRUE,
     prediction |-> RowTimes(Row(drv.x, m + i), drv.out[i + 1])]

\* lines 141-148: the expression refuses inputs with a validity bitmap
PlNullCheck ==
    /\ alive
    /\ drv.pc = "pl_start"
    /\ drv' = IF AnyHasValidity
              THEN [drv EXCEPT !.pc = "pl_done", !.res = NullsError]
              ELSE [drv EXCEPT !.pc = "pl_to_mat"]
    /\ UNCHANGED <<model, last, alive>>

\* lines 151-155: the conversion, and x and y handed to the driver
PlToMat ==
    /\ alive
    /\ drv.pc = "pl_to_mat"
    /\ LET r == series_to_mat_for_lstsq(FALSE, drv.skip_null)
       IN drv' = IF r.st = "Ok"
                 THEN [drv EXCEPT !.pc = "start", !.x = r.x, !.y = r.y]
                 ELSE [drv EXCEPT !.pc = "pl_done", !.res = r.st]
    /\ UNCHANGED <<model, last, alive>>

\* lines 158-178: n-1 null rows, then one row per snapshot
PlBuild ==
    /\ alive
    /\ drv.pc = "done"
    /\ LET m == abs_diff(drv.n, 1)
       IN drv' = [drv EXCEPT
                    !.pc = "pl_done",
                    !.res = "Ok",
                    !.rows = [k \in 1..(m + Len(drv.out)) |->
                                 IF k <= m THEN NullRow ELSE SnapshotRow(m, k - m - 1)]]
    /\ UNCHANGED <<model, last, alive>>

InitPl ==
    /\ \E lam \in Lambdas : New("OnlineLR", "QR", lam, FALSE)
    /\ alive = TRUE
    /\ \E rows \in 1..MaxXn, ncols \in 1..MaxCols, skip \in BOOLEAN :
         \E kinds \in [1..rows -> PlRowKinds], n \in 1..rows,
            nulls \in NullInputs(rows, ncols) :
           drv = [pc |-> "pl_start", which |-> "recursive",
                  x |-> DataX(kinds, ncols), y |-> DataY(kinds),
                  n |-> n, m |-> 0, j |-> 0, left |-> 0, right |-> n, cnt |-> 0,
                  out |-> <<>>, underflow |-> FALSE, log |-> <<>>,
                  nulls |-> nulls, skip_null |-> skip, res |-> "none", rows |-> <<>>]

NextPl == PlNullCheck \/ PlToMat \/ RecStart \/ RecStep \/ RecReturn \/ PlBuild
SpecPl == InitPl /\ [][NextPl]_vars

\* ------------------------------------------------- claims C21 .. C22 ----
FitErrors == {"DimensionMismatch", "NotEnoughData"}

\* C21: a fit call that returns DimensionMismatch or NotEnoughData leaves the
\* model as it was: coefficients, bias, fit_bias, the inverse and is_fit()
\* are what they were before the call
C21_FailedFitLeavesModel ==
    [][(last'.op = "fit" /\ last'.res \in FitErrors)
         => /\ model' = model
            /\ is_fit(coefficients') = is_fit(coefficients)
            /\ is_fit(coefficients') = last'.pre_fit]_vars

\* a model fitted by an earlier fit (its coefficients are a solver's output)
\* on which a later fit has returned an error
C21_Witness ==
    /\ last.op = "fit" /\ last.res \in FitErrors
    /\ last.pre_fit
    /\ coefficients.nrows >= 1
    /\ coefficients.data[1][1].k = "sol"

\* C22: pl_recursive_lstsq on null-free inputs of xn rows with 1 <= n <= xn
\* returns xn rows: the first n-1 are null in both fields, and row n-1+i
\* carries the i-th snapshot of the recursive driver and the prediction of
\* input row n-1+i under it; inputs with a null give an error whatever
\* skip_null is.
C22_RecursiveExpression ==
    drv.which = "recursive" =>
        /\ drv.pc # "panic"
        /\ drv.pc = "pl_done" =>
              IF drv.nulls # {}
              THEN drv.res # "Ok"
              ELSE /\ drv.res = "Ok"
                   /\ Len(drv.rows) = xn
                   /\ Len(drv.out) = xn - drv.n + 1
                   /\ \A k \in 1..(drv.n - 1) :
                         ~drv.rows[k].coeffs_valid /\ ~drv.rows[k].prediction_valid
                   /\ \A i \in 0..(xn - drv.n) :
                         LET r == drv.rows[drv.n + i]
                         IN /\ r.coeffs_valid /\ r.prediction_valid
                            /\ r.coeffs = col_as_slice(drv.out[i + 1])
                            /\ r.prediction
                                 = RowTimes(Row(drv.x, drv.n - 1 + i), drv.out[i + 1])

====
